---- MODULE Spec2Model ----
(***************************************************************************)
(* Sentinel One Lite: the REST API of sentinel/api/app.py over the tables  *)
(* of sentinel/storage/models.py, with the per-request session of          *)
(* sentinel/storage/db.py.                                                 *)
(*                                                                         *)
(* A request is received (get_db opens its session), its handler runs, and *)
(* get_db's finally clause closes the session.  Every handler is a         *)
(* coroutine without an await in its body, so the event loop of the single *)
(* uvicorn process runs it to completion: a handler is one atomic step.    *)
(* The model keeps one request in flight.                                  *)
(*                                                                         *)
(* No endpoint inserts events or alerts: those rows are in the database    *)
(* when the API starts.  Init draws them from rows that satisfy the        *)
(* schema's constraints and the alert invariants of the data model.        *)
(***************************************************************************)
EXTENDS Integers, Sequences, FiniteSets, TLC

\* Timestamps are 0..MaxTime (one unit is a day); requests are served at MaxTime.
MaxTime == 2
\* The ids of the stored rows stay within 1..MaxId.
MaxId == 2
\* Largest limit a paginated read is given (the code allows up to LimitCeiling).
MaxLimit == 2
\* Largest skip a paginated read is given.
MaxSkip == 1

\* Query(100, ge=1, le=1000): the bounds of limit, and Query(0, ge=0) of skip.
LimitFloor == 1
LimitCeiling == 1000
SkipFloor == 0

(***************************************************************************)
(* JSON values of a request body, and Python None / a missing dict key.    *)
(* kind "ts" is a JSON string holding a timestamp literal, "str" any other *)
(* JSON string, "obj" a JSON object.                                       *)
(***************************************************************************)
JNull == [kind |-> "null", i |-> 0, s |-> ""]
Absent == [kind |-> "absent", i |-> 0, s |-> ""]
JInt(n) == [kind |-> "int", i |-> n, s |-> ""]
JStr(x) == [kind |-> "str", i |-> 0, s |-> x]
JTs(t) == [kind |-> "ts", i |-> t, s |-> ""]
JObj(n) == [kind |-> "obj", i |-> n, s |-> ""]

\* Python truthiness of an Optional[str] / Optional[int] query parameter.
Truthy(v) ==
    \/ v.kind = "str" /\ v.s # ""
    \/ v.kind = "int" /\ v.i # 0
    \/ v.kind = "ts"

\* dict.get(key): a missing key reads as None.
DictGet(v) == IF v.kind = "absent" THEN JNull ELSE v

\* The text PostgreSQL stores when an integer is assigned to a varchar column.
IntText(n) ==
    CASE n = 0 -> "0" [] n = 1 -> "1" [] n = 2 -> "2" [] n = 3 -> "3"
      [] n = 4 -> "4" [] OTHER -> "9"

\* The text of a timestamp literal.
TsText(t) ==
    CASE t = 0 -> "1970-01-01" [] t = 1 -> "1970-01-02" [] t = 2 -> "1970-01-03"
      [] t = 3 -> "1970-01-04" [] OTHER -> "1970-01-05"

(***************************************************************************)
(* Binding a request value to a column: the error class the driver or the  *)
(* server raises ("" when the value is accepted), and the value stored.    *)
(***************************************************************************)
\* Column(Integer, nullable=False)
IntegerErr(v) ==
    CASE v.kind = "int" -> ""
      [] v.kind = "null" -> "IntegrityError"
      [] v.kind = "obj" -> "ProgrammingError"
      [] OTHER -> "DataError"

IntegerVal(v) == v.i

\* Column(DateTime, nullable=False)
DateTimeErr(v) ==
    CASE v.kind = "ts" -> ""
      [] v.kind = "null" -> "IntegrityError"
      [] v.kind = "str" -> "DataError"
      [] OTHER -> "ProgrammingError"

DateTimeVal(v) == v.i

\* Column(String, nullable=False)
StringErr(v) ==
    CASE v.kind \in {"str", "int", "ts"} -> ""
      [] v.kind = "null" -> "IntegrityError"
      [] OTHER -> "ProgrammingError"

StringVal(v) ==
    CASE v.kind = "int" -> IntText(v.i)
      [] v.kind = "ts" -> TsText(v.i)
      [] OTHER -> v.s

\* Column(Text, nullable=True)
TextErr(v) == IF v.kind = "null" THEN "" ELSE StringErr(v)

TextVal(v) == IF v.kind = "null" THEN JNull ELSE JStr(StringVal(v))

\* The first error of a sequence of error classes, "" when there is none.
RECURSIVE FirstErr(_)
FirstErr(errs) ==
    IF errs = <<>> THEN ""
    ELSE IF Head(errs) # "" THEN Head(errs)
    ELSE FirstErr(Tail(errs))

\* Errors of binding (raised when the statement is built or parsed) come
\* before constraint violations (raised when the row is written).
StatementErr(errs) ==
    LET typeErrs == SelectSeq(errs, LAMBDA e : e \in {"DataError", "ProgrammingError"})
    IN IF typeErrs # <<>> THEN Head(typeErrs) ELSE FirstErr(errs)

(***************************************************************************)
(* Rows of the tables.  Columns declared nullable=False hold plain values; *)
(* nullable and JSON columns hold a JSON value (JNull for SQL NULL).       *)
(***************************************************************************)
Host(id, hostname, platform, os_version, last_seen, created_at) ==
    [id |-> id, hostname |-> hostname, platform |-> platform,
     os_version |-> os_version, last_seen |-> last_seen, created_at |-> created_at]

\* The payload columns are nullable; the stored events leave them NULL.
Event(id, host_id, event_time, event_type, severity) ==
    [id |-> id, host_id |-> host_id, event_time |-> event_time,
     event_type |-> event_type, severity |-> severity,
     proc_name |-> JNull, proc_pid |-> JNull, proc_ppid |-> JNull, proc_cmdline |-> JNull,
     file_path |-> JNull, file_action |-> JNull,
     net_raddr |-> JNull, net_rport |-> JNull, net_laddr |-> JNull, net_lport |-> JNull,
     net_protocol |-> JNull, raw_data |-> JNull]

Rule(id, name, definition, now) ==
    [id |-> id, name |-> name, version |-> "1.0", enabled |-> TRUE,
     definition |-> definition, created_at |-> now, updated_at |-> now]

Alert(id, rule_id, host_id, first_seen, last_seen, severity, status, artifact) ==
    [id |-> id, rule_id |-> rule_id, host_id |-> host_id,
     first_seen |-> first_seen, last_seen |-> last_seen, severity |-> severity,
     title |-> "t", description |-> JNull, status |-> status, artifact |-> artifact]

\* The columns of Alert, and its relationship attributes: hasattr is true of both.
AlertColumns ==
    {"id", "rule_id", "host_id", "first_seen", "last_seen", "severity",
     "title", "description", "status", "artifact"}

AlertRelationships == {"rule", "host"}

Ids(table) == {table[k].id : k \in DOMAIN table}

\* The JSON objects the handlers return.
HostJson(h) ==
    [id |-> h.id, hostname |-> h.hostname, platform |-> h.platform,
     os_version |-> h.os_version, last_seen |-> h.last_seen, created_at |-> h.created_at]

EventJson(e) ==
    [id |-> e.id, host_id |-> e.host_id, event_type |-> e.event_type,
     severity |-> e.severity, event_time |-> e.event_time, proc_name |-> e.proc_name,
     proc_pid |-> e.proc_pid, file_path |-> e.file_path, net_raddr |-> e.net_raddr,
     net_rport |-> e.net_rport]

RuleJson(r) ==
    [id |-> r.id, name |-> r.name, version |-> r.version, enabled |-> r.enabled,
     definition |-> r.definition, created_at |-> r.created_at, updated_at |-> r.updated_at]

AlertJson(a) ==
    [id |-> a.id, rule_id |-> a.rule_id, host_id |-> a.host_id, severity |-> a.severity,
     title |-> a.title, description |-> a.description, status |-> a.status,
     first_seen |-> a.first_seen, last_seen |-> a.last_seen]

\* [{...} for x in rows]
HostsJson(rows) == [j \in DOMAIN rows |-> HostJson(rows[j])]

EventsJson(rows) == [j \in DOMAIN rows |-> EventJson(rows[j])]

RulesJson(rows) == [j \in DOMAIN rows |-> RuleJson(rows[j])]

AlertsJson(rows) == [j \in DOMAIN rows |-> AlertJson(rows[j])]

Min(a, b) == IF a < b THEN a ELSE b

\* query.offset(skip).limit(limit).all()
OffsetLimit(rows, skip, limit) == SubSeq(rows, skip + 1, Min(skip + limit, Len(rows)))

(***************************************************************************)
(* What a handler leaves behind: the database, the state of the handler's  *)
(* transaction, whether the connection is inside a transaction when the    *)
(* handler has ended, and the response.                                    *)
(***************************************************************************)
Response(status, detail, body) == [status |-> status, detail |-> detail, body |-> body]

Outcome(db, txn, in_transaction, response) ==
    [db |-> db, txn |-> txn, in_transaction |-> in_transaction, response |-> response]

\* Fault: the except clause commits what is pending instead of rolling it back.
RollbackAsCommit(before, pending, detail) ==
    Outcome(pending, "committed", FALSE, Response(500, detail, <<>>))

\* except Exception as e: db.rollback(); raise HTTPException(status_code=500, detail=str(e))
\* before is the database as committed; pending holds what the session has
\* assigned and not committed, which the rollback discards.
Rollback(before, pending, detail) ==
    Outcome(before, "rolledback", FALSE, Response(500, detail, <<>>))

\* A read handler returns its rows; its query has begun a transaction that the
\* handler neither commits nor rolls back.
ReadOk(db, body) == Outcome(db, "begun", TRUE, Response(200, "", body))

\* Fault: a commit that also empties the events table.
CommitDroppingEvents(after, body) ==
    Outcome([after EXCEPT !.events = <<>>], "committed", TRUE, Response(200, "", body))

\* db.commit(); db.refresh(row); return {...}: the refresh begins a new transaction.
Commit(after, body) == Outcome(after, "committed", TRUE, Response(200, "", body))

\* The database the handlers read and write.
Database(hosts_, events_, rules_, alerts_, hseq, rseq) ==
    [hosts |-> hosts_, events |-> events_, rules |-> rules_, alerts |-> alerts_,
     hosts_id_seq |-> hseq, rules_id_seq |-> rseq]

(***************************************************************************)
(* POST /api/hosts                                                         *)
(***************************************************************************)
create_host_outcome(db, host_data, now) ==
    IF host_data.hostname.kind = "absent" THEN Rollback(db, db, "'hostname'")
    ELSE IF host_data.platform.kind = "absent" THEN Rollback(db, db, "'platform'")
    ELSE
      LET os_version == DictGet(host_data.os_version)
          err == StatementErr(<<StringErr(host_data.hostname),
                                StringErr(host_data.platform),
                                StringErr(os_version)>>)
          host == Host(db.hosts_id_seq, StringVal(host_data.hostname),
                       StringVal(host_data.platform), StringVal(os_version), now, now)
      IN IF err # "" THEN Rollback(db, db, err)
         ELSE Commit([db EXCEPT !.hosts = Append(@, host), !.hosts_id_seq = @ + 1],
                     <<HostJson(host)>>)

(***************************************************************************)
(* POST /api/rules                                                         *)
(***************************************************************************)
\* Column(String(255), nullable=False, unique=True)
RuleNameTaken(rules_, name) == \E k \in DOMAIN rules_ : rules_[k].name = name

create_rule_outcome(db, rule_data, now) ==
    IF rule_data.name.kind = "absent" THEN Rollback(db, db, "'name'")
    ELSE IF rule_data.definition.kind = "absent" THEN Rollback(db, db, "'definition'")
    ELSE
      LET nameErr == StringErr(rule_data.name)
          unique == IF nameErr = "" /\ RuleNameTaken(db.rules, StringVal(rule_data.name))
                    THEN "IntegrityError" ELSE ""
          err == StatementErr(<<nameErr, unique>>)
          \* a JSON column stores None as the JSON null, not as SQL NULL
          rule == Rule(db.rules_id_seq, StringVal(rule_data.name), rule_data.definition, now)
      IN IF err # "" THEN Rollback(db, db, err)
         ELSE Commit([db EXCEPT !.rules = Append(@, rule), !.rules_id_seq = @ + 1],
                     <<RuleJson(rule)>>)

(***************************************************************************)
(* PUT /api/alerts/{alert_id}                                              *)
(***************************************************************************)
\* db.query(Alert).filter(Alert.id == alert_id).first(): the row's position, 0 for None.
FindAlert(alerts_, alert_id) ==
    IF \E k \in DOMAIN alerts_ : alerts_[k].id = alert_id
    THEN CHOOSE k \in DOMAIN alerts_ : alerts_[k].id = alert_id
    ELSE 0

\* Fault: assigning status also resets severity to "low".
RECURSIVE SetAttrsDowngrading(_, _)
SetAttrsDowngrading(alert_data, attrs) ==
    IF alert_data = <<>> THEN [raised |-> FALSE, attrs |-> attrs]
    ELSE LET field == Head(alert_data).field
             value == Head(alert_data).value
         IN IF field \in {"rule", "host"} THEN [raised |-> TRUE, attrs |-> attrs]
            ELSE IF field = "status"
            THEN SetAttrsDowngrading(Tail(alert_data),
                     [attrs EXCEPT ![field] = value,
                                   !["severity"] = [kind |-> "str", i |-> 0, s |-> "low"]])
            ELSE IF field \in DOMAIN attrs
            THEN SetAttrsDowngrading(Tail(alert_data), [attrs EXCEPT ![field] = value])
            ELSE SetAttrsDowngrading(Tail(alert_data), attrs)

\* for field, value in alert_data.items(): if hasattr(alert, field): setattr(...)
\* Assigning a JSON value to a relationship attribute raises AttributeError.
\* The result is the assigned columns, or raised.
RECURSIVE SetAttrs(_, _)
SetAttrs(alert_data, attrs) ==
    IF alert_data = <<>> THEN [raised |-> FALSE, attrs |-> attrs]
    ELSE LET field == Head(alert_data).field
             value == Head(alert_data).value
         IN IF field \in AlertRelationships THEN [raised |-> TRUE, attrs |-> attrs]
            ELSE IF field \in AlertColumns
            THEN SetAttrs(Tail(alert_data), [attrs EXCEPT ![field] = value])
            ELSE SetAttrs(Tail(alert_data), attrs)

NoAttrs == [c \in AlertColumns |-> Absent]

Set(attrs, column) == attrs[column].kind # "absent"

\* The row the UPDATE statement of the flush writes.
UpdatedAlert(alert, attrs) ==
    [id |-> IF Set(attrs, "id") THEN IntegerVal(attrs["id"]) ELSE alert.id,
     rule_id |-> IF Set(attrs, "rule_id") THEN IntegerVal(attrs["rule_id"]) ELSE alert.rule_id,
     host_id |-> IF Set(attrs, "host_id") THEN IntegerVal(attrs["host_id"]) ELSE alert.host_id,
     first_seen |-> IF Set(attrs, "first_seen") THEN DateTimeVal(attrs["first_seen"])
                    ELSE alert.first_seen,
     last_seen |-> IF Set(attrs, "last_seen") THEN DateTimeVal(attrs["last_seen"])
                   ELSE alert.last_seen,
     severity |-> IF Set(attrs, "severity") THEN StringVal(attrs["severity"]) ELSE alert.severity,
     title |-> IF Set(attrs, "title") THEN StringVal(attrs["title"]) ELSE alert.title,
     description |-> IF Set(attrs, "description") THEN TextVal(attrs["description"])
                     ELSE alert.description,
     status |-> IF Set(attrs, "status") THEN StringVal(attrs["status"]) ELSE alert.status,
     artifact |-> IF Set(attrs, "artifact") THEN attrs["artifact"] ELSE alert.artifact]

\* The error of the UPDATE statement: binding errors, then NOT NULL, the primary
\* key's uniqueness and the foreign keys to rules.id and hosts.id.
UpdateErr(db, k, attrs) ==
    LET bind(column, Err(_)) == IF Set(attrs, column) THEN Err(attrs[column]) ELSE ""
        row == UpdatedAlert(db.alerts[k], attrs)
        others == {db.alerts[j].id : j \in DOMAIN db.alerts \ {k}}
        idErr == bind("id", IntegerErr)
        ruleErr == bind("rule_id", IntegerErr)
        hostErr == bind("host_id", IntegerErr)
    IN StatementErr(<<
         idErr, ruleErr, hostErr,
         bind("first_seen", DateTimeErr), bind("last_seen", DateTimeErr),
         bind("severity", StringErr), bind("title", StringErr),
         bind("description", TextErr), bind("status", StringErr),
         IF idErr = "" /\ row.id \in others THEN "IntegrityError" ELSE "",
         IF ruleErr = "" /\ row.rule_id \notin Ids(db.rules) THEN "IntegrityError" ELSE "",
         IF hostErr = "" /\ row.host_id \notin Ids(db.hosts) THEN "IntegrityError" ELSE "">>)

update_alert_outcome(db, alert_id, alert_data) ==
    LET k == FindAlert(db.alerts, alert_id)
    IN IF k = 0
       \* the HTTPException(404) is raised inside the try and caught by except Exception
       THEN Rollback(db, db, "404: Alert not found")
       ELSE LET assigned == SetAttrs(alert_data, NoAttrs)
                err == UpdateErr(db, k, assigned.attrs)
                row == UpdatedAlert(db.alerts[k], assigned.attrs)
            IN IF assigned.raised
               \* the columns assigned before the raise are pending on the object
               THEN Rollback(db, [db EXCEPT !.alerts[k] = row], "AttributeError")
               \* the UPDATE failed as a whole: nothing of it is pending
               ELSE IF err # "" THEN Rollback(db, db, err)
               ELSE Commit([db EXCEPT !.alerts[k] = row], <<AlertJson(row)>>)

(***************************************************************************)
(* The read endpoints.                                                     *)
(***************************************************************************)
\* if event_type: ... if severity: ... if host_id: query = query.filter(...)
EventMatches(e, event_type, severity, host_id) ==
    /\ Truthy(event_type) => e.event_type = StringVal(event_type)
    /\ Truthy(severity) => e.severity = StringVal(severity)
    /\ Truthy(host_id) => e.host_id = host_id.i

get_events_outcome(db, skip, limit, event_type, severity, host_id) ==
    LET rows == SelectSeq(db.events,
                          LAMBDA e : EventMatches(e, event_type, severity, host_id))
    IN ReadOk(db, EventsJson(OffsetLimit(rows, skip, limit)))

\* if severity: ... if status: query = query.filter(...)
AlertMatches(a, severity, status) ==
    /\ Truthy(severity) => a.severity = StringVal(severity)
    /\ Truthy(status) => a.status = StringVal(status)

get_alerts_outcome(db, skip, limit, severity, status) ==
    LET rows == SelectSeq(db.alerts, LAMBDA a : AlertMatches(a, severity, status))
    IN ReadOk(db, AlertsJson(OffsetLimit(rows, skip, limit)))

get_hosts_outcome(db) == ReadOk(db, HostsJson(db.hosts))

get_rules_outcome(db) == ReadOk(db, RulesJson(db.rules))

\* yesterday = datetime.now() - timedelta(days=1)
get_dashboard_stats_outcome(db, now) ==
    ReadOk(db, <<[total_hosts |-> Len(db.hosts),
                  total_events |-> Len(db.events),
                  total_rules |-> Len(db.rules),
                  total_alerts |-> Len(db.alerts),
                  recent_events |->
                      Len(SelectSeq(db.events, LAMBDA e : e.event_time >= now - 1)),
                  high_alerts |->
                      Len(SelectSeq(db.alerts, LAMBDA a : a.severity = "high"))]>>)

(***************************************************************************)
(* The state.                                                              *)
(***************************************************************************)
VARIABLES
    hosts, events, rules, alerts,   \* the tables, each a sequence of rows
    hosts_id_seq, rules_id_seq,     \* the id the next inserted row is given
    request,                        \* the request in flight: [op, args]
    phase,                          \* "idle", "received", "handled", "closed"
    session,                        \* the request's Session: "none", "open", "closed"
    txn,                            \* the handler's transaction:
                                    \*   "none", "begun", "committed", "rolledback"
    in_transaction,                 \* the session's connection is inside a transaction
    response                        \* the response of the handler

vars == <<hosts, events, rules, alerts, hosts_id_seq, rules_id_seq,
          request, phase, session, txn, in_transaction, response>>

DB == Database(hosts, events, rules, alerts, hosts_id_seq, rules_id_seq)

NoRequest == [op |-> "none", args |-> <<>>]
NoResponse == Response(0, "", <<>>)

(***************************************************************************)
(* The rows in the database when the API starts.                           *)
(***************************************************************************)
InitHosts == <<Host(1, "h1", "linux", "12", 0, 0)>>

InitRules == <<Rule(1, "r1", JObj(1), 0)>>

InitEvents ==
    <<Event(1, 1, 0, "process", "high"),
      Event(2, 1, 1, "network", "low"),
      Event(3, 1, MaxTime, "process", "low")>>

\* No alert, one open alert, or two alerts of one dedup key: the open one and
\* an older one that was closed.  Each has first_seen <= last_seen.
InitAlerts ==
    {<<>>,
     <<Alert(1, 1, 1, 1, 1, "high", "open", JObj(1))>>,
     <<Alert(1, 1, 1, 1, 1, "high", "open", JObj(1)),
       Alert(2, 1, 1, 0, 1, "high", "closed", JObj(1))>>}

Init ==
    /\ hosts = InitHosts
    /\ events = InitEvents
    /\ rules = InitRules
    /\ alerts \in InitAlerts
    /\ hosts_id_seq = Len(InitHosts) + 1
    /\ rules_id_seq = Len(InitRules) + 1
    /\ request = NoRequest
    /\ phase = "idle"
    /\ session = "none"
    /\ txn = "none"
    /\ in_transaction = FALSE
    /\ response = NoResponse

(***************************************************************************)
(* The requests the clients send.                                          *)
(***************************************************************************)
HostBody(hostname, platform, os_version) ==
    [hostname |-> hostname, platform |-> platform, os_version |-> os_version]

\* Bodies of POST /api/hosts: a complete one, one without each key, and a null os_version.
HostData ==
    {HostBody(JStr("h2"), JStr("linux"), JStr("12")),
     HostBody(Absent, JStr("linux"), JStr("12")),
     HostBody(JStr("h2"), Absent, JStr("12")),
     HostBody(JStr("h2"), JStr("linux"), Absent),
     HostBody(JStr("h2"), JStr("linux"), JNull)}

RuleBody(name, definition) == [name |-> name, definition |-> definition]

\* Bodies of POST /api/rules: a new name, a name already stored, and one without each key.
RuleData ==
    {RuleBody(JStr("r2"), JObj(2)),
     RuleBody(JStr("r1"), JObj(2)),
     RuleBody(Absent, JObj(2)),
     RuleBody(JStr("r2"), Absent)}

\* datetime.now() / datetime.utcnow() when a request is served.
Now == {MaxTime}

Pair(field, value) == [field |-> field, value |-> value]

\* Bodies of PUT /api/alerts/{id}: a field of every kind of outcome, and
\* two-field bodies whose second field fails after the first was assigned.
AlertData ==
    {<<Pair("last_seen", JTs(0))>>,
     <<Pair("last_seen", JTs(MaxTime))>>,
     <<Pair("last_seen", JInt(1))>>,
     <<Pair("status", JStr("open"))>>,
     <<Pair("status", JStr("closed"))>>,
     <<Pair("severity", JStr("low"))>>,
     <<Pair("severity", JNull)>>,
     <<Pair("id", JInt(MaxId + 1))>>,
     <<Pair("id", JInt(1))>>,
     <<Pair("rule_id", JInt(MaxId + 1))>>,
     <<Pair("host_id", JStr("h1"))>>,
     <<Pair("note", JStr("x"))>>,
     <<Pair("status", JStr("closed")), Pair("rule_id", JInt(MaxId + 1))>>,
     <<Pair("severity", JStr("low")), Pair("host", JInt(1))>>}

\* The ids asked for: those of the alerts stored at the start, and one never stored.
AlertIdsAsked == {1, 2, MaxId + 1}

Skips == SkipFloor..MaxSkip
Limits == LimitFloor..Min(MaxLimit, LimitCeiling)

EventQueries ==
    [skip : Skips, limit : Limits,
     event_type : {Absent, JStr("process")},
     severity : {Absent, JStr("low")},
     host_id : {Absent, JInt(0), JInt(1), JInt(2)}]

AlertQueries ==
    [skip : Skips, limit : Limits,
     severity : {Absent, JStr("high")},
     status : {Absent, JStr("open")}]

\* The reads a client sends while the write endpoints are exercised: the defaults.
DefaultEventQueries ==
    {q \in EventQueries :
        /\ q.skip = SkipFloor /\ q.limit = Min(MaxLimit, LimitCeiling)
        /\ q.event_type = Absent /\ q.severity = Absent /\ q.host_id = Absent}

DefaultAlertQueries ==
    {q \in AlertQueries :
        /\ q.skip = SkipFloor /\ q.limit = Min(MaxLimit, LimitCeiling)
        /\ q.severity = Absent /\ q.status = Absent}

(***************************************************************************)
(* get_db: db = SessionLocal(); yield db -- a request arrives and its      *)
(* session is opened.                                                      *)
(***************************************************************************)
Receive(op, args) ==
    /\ phase \in {"idle", "closed"}
    /\ request' = [op |-> op, args |-> args]
    /\ phase' = "received"
    /\ session' = "open"
    /\ txn' = "none"
    /\ in_transaction' = FALSE
    /\ response' = NoResponse
    /\ UNCHANGED <<hosts, events, rules, alerts, hosts_id_seq, rules_id_seq>>

\* get_db: finally: db.close() -- the connection is released; a transaction
\* still open on it is rolled back.  The response has left the server.
\* Fault: no finally clause, so a handler that raises leaves its session open.
SessionLeftOpenOnError(status) == IF status = 200 THEN "closed" ELSE "open"

SessionAfterClose(status) == "closed"

Close ==
    /\ phase = "handled"
    /\ session' = SessionAfterClose(response.status)
    /\ in_transaction' = FALSE
    /\ phase' = "closed"
    /\ request' = [op |-> request.op, args |-> <<>>]
    /\ response' = NoResponse
    /\ UNCHANGED <<hosts, events, rules, alerts, hosts_id_seq, rules_id_seq, txn>>

\* The handler of the request in flight runs to its end.
Handle(op, outcome) ==
    /\ phase = "received"
    /\ request.op = op
    /\ hosts' = outcome.db.hosts
    /\ events' = outcome.db.events
    /\ rules' = outcome.db.rules
    /\ alerts' = outcome.db.alerts
    /\ hosts_id_seq' = outcome.db.hosts_id_seq
    /\ rules_id_seq' = outcome.db.rules_id_seq
    /\ txn' = outcome.txn
    /\ in_transaction' = outcome.in_transaction
    /\ response' = outcome.response
    /\ phase' = "handled"
    /\ UNCHANGED <<request, session>>

create_host ==
    /\ request.op = "create_host"
    /\ Handle("create_host",
              create_host_outcome(DB, request.args.host_data, request.args.now))

create_rule ==
    /\ request.op = "create_rule"
    /\ Handle("create_rule",
              create_rule_outcome(DB, request.args.rule_data, request.args.now))

update_alert ==
    /\ request.op = "update_alert"
    /\ Handle("update_alert",
              update_alert_outcome(DB, request.args.alert_id, request.args.alert_data))

get_events ==
    /\ request.op = "get_events"
    /\ Handle("get_events",
              get_events_outcome(DB, request.args.skip, request.args.limit,
                                 request.args.event_type, request.args.severity,
                                 request.args.host_id))

get_alerts ==
    /\ request.op = "get_alerts"
    /\ Handle("get_alerts",
              get_alerts_outcome(DB, request.args.skip, request.args.limit,
                                 request.args.severity, request.args.status))

get_hosts ==
    /\ request.op = "get_hosts"
    /\ Handle("get_hosts", get_hosts_outcome(DB))

get_rules ==
    /\ request.op = "get_rules"
    /\ Handle("get_rules", get_rules_outcome(DB))

get_dashboard_stats ==
    /\ request.op = "get_dashboard_stats"
    /\ Handle("get_dashboard_stats", get_dashboard_stats_outcome(DB, request.args.now))

ReceiveCreateHost ==
    /\ hosts_id_seq <= MaxId
    /\ \E d \in HostData, now \in Now :
          Receive("create_host", [host_data |-> d, now |-> now])

ReceiveCreateRule ==
    /\ rules_id_seq <= MaxId
    /\ \E d \in RuleData, now \in Now :
          Receive("create_rule", [rule_data |-> d, now |-> now])

ReceiveUpdateAlert ==
    \E id \in AlertIdsAsked, d \in AlertData :
        Receive("update_alert", [alert_id |-> id, alert_data |-> d])

ReceiveGetEvents(queries) == \E q \in queries : Receive("get_events", q)

ReceiveGetAlerts(queries) == \E q \in queries : Receive("get_alerts", q)

ReceiveGetHosts == Receive("get_hosts", <<>>)

ReceiveGetRules == Receive("get_rules", <<>>)

ReceiveGetDashboardStats ==
    \E now \in Now : Receive("get_dashboard_stats", [now |-> now])

Handler ==
    \/ create_host
    \/ create_rule
    \/ update_alert
    \/ get_events
    \/ get_alerts
    \/ get_hosts
    \/ get_rules
    \/ get_dashboard_stats

Next ==
    \/ ReceiveCreateHost
    \/ ReceiveCreateRule
    \/ ReceiveUpdateAlert
    \/ ReceiveGetEvents(DefaultEventQueries)
    \/ ReceiveGetAlerts(DefaultAlertQueries)
    \/ ReceiveGetHosts
    \/ ReceiveGetRules
    \/ ReceiveGetDashboardStats
    \/ Handler
    \/ Close

Spec == Init /\ [][Next]_vars

\* get_db's finally clause runs whenever the handler has ended.
FairSpec == Spec /\ WF_vars(Close)

\* The paginated reads, with every filter, over the rows of Init.
QueryNext ==
    \/ ReceiveGetEvents(EventQueries)
    \/ ReceiveGetAlerts(AlertQueries)
    \/ get_events
    \/ get_alerts
    \/ Close

QuerySpec == Init /\ [][QueryNext]_vars

(***************************************************************************)
(* Properties.                                                             *)
(***************************************************************************)
WriteOps == {"create_host", "create_rule", "update_alert"}

\* The step in which the handler of the request in flight runs.
HandlerStep == phase = "received" /\ phase' = "handled"

HasField(alert_data, field) ==
    \E j \in DOMAIN alert_data : alert_data[j].field = field

\* The key under which alerts are deduplicated: the rule, the host and the
\* salient fields kept in the artifact.
DedupKey(a) == <<a.rule_id, a.host_id, a.artifact>>

UniqueOpen(alerts_) ==
    \A j, k \in DOMAIN alerts_ :
        (/\ j # k
         /\ alerts_[j].status = "open"
         /\ alerts_[k].status = "open") => DedupKey(alerts_[j]) # DedupKey(alerts_[k])

\* C1: every stored alert has first_seen <= last_seen.
C1_FirstSeenBeforeLastSeen ==
    \A k \in DOMAIN alerts : alerts[k].first_seen <= alerts[k].last_seen

\* C2: at most one alert with status "open" for a (rule, host, dedup-key).
C2_OneOpenAlertPerKey == UniqueOpen(alerts)

\* C3: no update applied to an existing alert lowers its last_seen.
C3_LastSeenNeverDecreases ==
    [][\A k \in DOMAIN alerts :
          k \in DOMAIN alerts' /\ alerts'[k].last_seen >= alerts[k].last_seen]_vars

\* C4: every alert id stored before a step is still stored after it.
C4_AlertIdsRetained == [][Ids(alerts) \subseteq Ids(alerts')]_vars

\* C5: no step changes or removes an event that exists: the events before a
\* step are a prefix of the events after it.
C5_EventsAppendOnly ==
    [][/\ Len(events') >= Len(events)
       /\ SubSeq(events', 1, Len(events)) = events]_vars

C5_Witness ==
    /\ phase = "handled"
    /\ request.op \in WriteOps
    /\ response.status = 200
    /\ events # <<>>

\* C6: a step changes the severity of an alert only if it is update_alert
\* handling a body that has a severity field.
C6_SeverityOnlyByOperator ==
    [][\A k \in DOMAIN alerts :
          (k \notin DOMAIN alerts' \/ alerts'[k].severity # alerts[k].severity)
          => /\ HandlerStep
             /\ request.op = "update_alert"
             /\ HasField(request.args.alert_data, "severity")]_vars

C6_Witness ==
    /\ phase = "handled"
    /\ request.op = "update_alert"
    /\ response.status = 200
    /\ HasField(request.args.alert_data, "status")
    /\ ~HasField(request.args.alert_data, "severity")
    /\ \E k \in DOMAIN alerts : alerts[k].severity = "low"
    /\ \E k \in DOMAIN alerts :
          /\ alerts[k].id = request.args.alert_id
          /\ alerts[k].severity = "high"

\* C7: once a handler has ended, its session gets closed; a closed session
\* holds no transaction; and a write handler has committed or rolled back its
\* transaction when it ends, so before the session is closed.
C7_SessionReleased ==
    /\ (phase = "handled") ~> (session = "closed")
    /\ [](phase = "closed" => session = "closed" /\ ~in_transaction)
    /\ []((phase \in {"handled", "closed"} /\ request.op \in WriteOps)
            => txn \in {"committed", "rolledback"})

C7_Witness ==
    /\ phase = "closed"
    /\ session = "closed"
    /\ request.op = "update_alert"
    /\ txn = "rolledback"

\* C8: update_alert with an alert_id that matches no stored alert responds
\* 404 "Alert not found" and changes no alert.
C8_MissingAlertIs404 ==
    [][(/\ HandlerStep
        /\ request.op = "update_alert"
        /\ request.args.alert_id \notin Ids(alerts))
       => /\ response'.status = 404
          /\ response'.detail = "Alert not found"
          /\ alerts' = alerts]_vars

\* A filter is supplied when the request gives the parameter a value.
Supplied(v) == v.kind # "absent"

EventSatisfies(e, q) ==
    /\ Supplied(q.event_type) => e.event_type = StringVal(q.event_type)
    /\ Supplied(q.severity) => e.severity = StringVal(q.severity)
    /\ Supplied(q.host_id) => e.host_id = q.host_id.i

AlertSatisfies(a, q) ==
    /\ Supplied(q.severity) => a.severity = StringVal(q.severity)
    /\ Supplied(q.status) => a.status = StringVal(q.status)

Page(rows, q) ==
    [j \in 1..Min(q.limit, IF Len(rows) > q.skip THEN Len(rows) - q.skip ELSE 0) |->
        rows[q.skip + j]]

\* C9: get_events and get_alerts return exactly the records at positions
\* skip .. skip+limit-1 of the records that satisfy every supplied filter.
C9_ReadsHonourEveryFilter ==
    /\ (phase = "handled" /\ request.op = "get_events")
         => LET rows == SelectSeq(events, LAMBDA e : EventSatisfies(e, request.args))
            IN response.body = Page(EventsJson(rows), request.args)
    /\ (phase = "handled" /\ request.op = "get_alerts")
         => LET rows == SelectSeq(alerts, LAMBDA a : AlertSatisfies(a, request.args))
            IN response.body = Page(AlertsJson(rows), request.args)

UniqueRuleNames ==
    \A j, k \in DOMAIN rules : j # k => rules[j].name # rules[k].name

====
